---- MODULE Spec2Model ----
(***************************************************************************)
(* PaDiM (anomaly_detection/padim/padim.py): the training accumulation of  *)
(* get_train_outputs, the inference / reverse-augmentation part of         *)
(* recognize_from_image, and its normalisation and threshold search.       *)
(*                                                                         *)
(* Real numbers are exact rationals <<n, d>> (d > 0, lowest terms);        *)
(* <<0, 0>> is NaN and <<1, 0>>, <<-1, 0>> are the infinities numpy yields *)
(* on a division by zero.  Floating-point rounding is not modelled.        *)
(***************************************************************************)
EXTENDS Integers, Sequences, FiniteSets, TLC

\* ------------------------------------------------------------------ bounds
MaxFiles == 3
MaxBatch == 2
MaxAug == 2
HW == 2

\* ------------------------------------------------------- program constants
IMAGE_RESIZE == 256
IMAGE_SIZE == 224
t_d == 3
d == 2

\* ------------------------------------------------------------- rationals
Abs(x) == IF x < 0 THEN -x ELSE x

Sign(x) == IF x < 0 THEN -1 ELSE IF x = 0 THEN 0 ELSE 1

RECURSIVE GCD(_, _)
GCD(a, b) == IF b = 0 THEN a ELSE GCD(b, a % b)

Rat(n, dn) ==
    IF dn = 0 THEN <<Sign(n), 0>>
    ELSE LET g == GCD(Abs(n), Abs(dn))
         IN  <<Sign(dn) * (n \div g), Abs(dn) \div g>>

RInt(n) == <<n, 1>>

NaN == <<0, 0>>

\* Python's None
None == <<>>

RAdd(p, q) ==
    IF p[2] = 0 /\ q[2] = 0 THEN (IF p[1] = q[1] THEN p ELSE NaN)
    ELSE IF p[2] = 0 THEN p
    ELSE IF q[2] = 0 THEN q
    ELSE LET g == GCD(p[2], q[2])
         IN  Rat(p[1] * (q[2] \div g) + q[1] * (p[2] \div g), (p[2] \div g) * q[2])

RNeg(p) == <<-p[1], p[2]>>

RSub(p, q) == RAdd(p, RNeg(q))

RMul(p, q) ==
    IF p[2] = 0 \/ q[2] = 0 THEN <<Sign(p[1]) * Sign(q[1]), 0>>
    ELSE LET g1 == GCD(Abs(p[1]), q[2])
             g2 == GCD(Abs(q[1]), p[2])
         IN  IF p[1] = 0 \/ q[1] = 0 THEN <<0, 1>>
             ELSE <<(p[1] \div g1) * (q[1] \div g2), (p[2] \div g2) * (q[2] \div g1)>>

RInv(p) ==
    IF p[2] = 0 THEN (IF p[1] = 0 THEN NaN ELSE <<0, 1>>)
    ELSE IF p[1] = 0 THEN <<1, 0>>
    ELSE <<Sign(p[1]) * p[2], Abs(p[1])>>

RDiv(p, q) == RMul(p, RInv(q))

\* p <= q, false as soon as one side is NaN (as IEEE comparisons are)
RLe(p, q) ==
    IF p = NaN \/ q = NaN THEN FALSE
    ELSE IF p[2] = 0 /\ q[2] = 0 THEN p[1] <= q[1]
    ELSE IF p[2] = 0 THEN p[1] < 0
    ELSE IF q[2] = 0 THEN q[1] > 0
    ELSE p[1] * q[2] <= q[1] * p[2]

RLt(p, q) == RLe(p, q) /\ p # q

RECURSIVE RSum(_, _)
RSum(f, n) == IF n = 0 THEN RInt(0) ELSE RAdd(RSum(f, n - 1), f[n])

RECURSIVE ISum(_, _)
ISum(f, n) == IF n = 0 THEN 0 ELSE ISum(f, n - 1) + f[n]

Min(a, b) == IF a < b THEN a ELSE b

\* ------------------------------------------------------------ input sets
\* contents of an image file (what load_image returns), abstracted to a number
Images == {0, 1}

Exts == <<".png", ".jpg", ".bmp">>

\* (h, w) of the image files
Shapes == {<<256, 256>>, <<300, 200>>}

\* raw words the generator behind np.random hands out, cyclically
RngStreams == {<<0>>, <<0, 31>>, <<31, 40, 0, 7>>}

\* random.sample(range(0, t_d), d) for the seeds tried
IdxChoices == {[c \in 1..d |-> c], [c \in 1..d |-> t_d + 1 - c]}

\* directory listings: file j is an image (extension by position) or a .txt
Files(n) ==
    [1..n -> [ext : {".txt"}, px : {0}]
             \cup [ext : {Exts[1], Exts[2], Exts[3]}, px : Images]]

DirListings ==
    UNION {{f \in Files(n) :
               \A j \in 1..n : f[j].ext \in {".txt", Exts[((j - 1) % 3) + 1]}}
           : n \in 0..MaxFiles}

VARIABLES
    feat, batch_size, aug, aug_num, idx, train_dir, input, img_hw, rng,
    arg_threshold,
    pc, rng_pos,
    train_imgs, i_aug, i_img, N, mean, cov, nets, predicts, pickled,
    exit_status, train_outputs, fed,
    dist_list, angle_list, pad_h_list, pad_w_list, pad_h, pad_w, test_imgs,
    gt_imgs,
    rev_i, pad_width, score_map,
    sklearn_legacy, scores, anormal_scores, gt_mask, precision, recall,
    thresholds, threshold

argVars == <<feat, batch_size, aug, aug_num, idx, train_dir, input, img_hw,
             rng, arg_threshold>>

trainVars == <<train_imgs, mean, cov, pickled, exit_status, train_outputs, fed>>

inferVars == <<dist_list, angle_list, pad_h_list, pad_w_list, pad_h, pad_w,
               test_imgs, gt_imgs>>

mapVars == <<rev_i, pad_width, score_map>>

scoreVars == <<sklearn_legacy, scores, anormal_scores, gt_mask, precision, recall,
               thresholds, threshold>>

vars == <<argVars, pc, rng_pos, i_aug, i_img, N, nets, predicts, trainVars,
          inferVars, mapVars, scoreVars>>

\* ------------------------------------------------------------ preprocess
\* np.random.randint(low, high): a value of low..high-1 picked by the next word
randint(low, high, word) == low + (word % (high - low))

RngAt(p) == rng[(p % Len(rng)) + 1]

\* shape (h, w) of the array after the resize of preprocess / preprocess_aug
Resized(hw) ==
    LET h == hw[1]
        w == hw[2]
        size == IF h > w THEN <<IMAGE_RESIZE, (IMAGE_RESIZE * h) \div w>>
                ELSE <<(IMAGE_RESIZE * w) \div h, IMAGE_RESIZE>>
    IN  <<size[2], size[1]>>

\* preprocess(img): the centre crop of the resized image, not rotated
preprocess(img) ==
    LET r == Resized(img_hw)
    IN  [px |-> img.px, angle |-> 0,
         pad_h |-> (r[1] - IMAGE_SIZE) \div 2,
         pad_w |-> (r[2] - IMAGE_SIZE) \div 2]

angle_range == <<-10, 10>>

\* the angle preprocess_aug draws for a non-mask image
RandomAngle(word) == randint(angle_range[1], angle_range[1] + 1, word)

\* preprocess_aug(img, return_refs=True) on a non-mask image, drawing its three
\* random numbers from position p of the generator
preprocess_aug(img, p) ==
    LET r == Resized(img_hw)
    IN  [px |-> img.px,
         angle |-> RandomAngle(RngAt(p)),
         pad_h |-> randint(0, r[1] - IMAGE_SIZE, RngAt(p + 1)),
         pad_w |-> randint(0, r[2] - IMAGE_SIZE, RngAt(p + 2))]

\* ------------------------------------------------- network and embedding
\* net.predict + get_blob_data + postprocess: the opaque backbone, a fixed
\* function of the preprocessed picture giving t_d channels at HW locations
Backbone(x) ==
    [c \in 1..t_d |->
        [i \in 1..HW |->
            (x.px * c + (x.px + 1) * i + x.pad_h + x.pad_w + c * x.angle) % 3]]

\* embedding_vectors[:, idx, :, :] reshaped to (B, C, H * W), for one picture
Embed(x) == LET e == Backbone(x) IN [c \in 1..d |-> e[idx[c]]]

\* -------------------------------------------------------- get_train_outputs
IsTrainImage(f) == f.ext = ".png" \/ f.ext = ".jpg" \/ f.ext = ".bmp"

\* sorted([... for f in os.listdir(train_dir) if f.endswith(...)]), as the
\* positions of the kept files in the (sorted) listing
ListTrainImgs(dir) == SelectSeq([j \in 1..Len(dir) |-> j], LAMBDA j : IsTrainImage(dir[j]))

\* a slice that runs one element too far, as the logged range of lines 219-227
BatchSliceInclusive(lst, start, size) ==
    SubSeq(lst, start + 1, Min(start + size + 1, Len(lst)))

\* lst[i_img:i_img + batch_size] (0-based start, Python slice clipping)
BatchSlice(lst, start, size) ==
    SubSeq(lst, start + 1, Min(start + size, Len(lst)))

\* aug_num as lines 206-211 and 393-404 set it
AugNum == IF aug THEN aug_num ELSE 1

\* the preprocessed pictures of one batch; picture j draws from the generator
\* at rng_pos + 3 * (j - 1) when augmenting
PreprocessBatch(files) ==
    [j \in 1..Len(files) |->
        IF aug THEN preprocess_aug(files[j], rng_pos + 3 * (j - 1))
        ELSE preprocess(files[j])]

RngAfter(B) == IF aug THEN (rng_pos + 3 * B) % Len(rng) ELSE rng_pos

ZeroMean == [c \in 1..d |-> [i \in 1..HW |-> RInt(0)]]

ZeroCov == [c1 \in 1..d |-> [c2 \in 1..d |-> [i \in 1..HW |-> RInt(0)]]]

\* mean += np.sum(embedding_vectors, axis=0)
AddMean(mn, embs) ==
    [c \in 1..d |-> [i \in 1..HW |->
        RAdd(mn[c][i], RInt(ISum([b \in 1..Len(embs) |-> embs[b][c][i]], Len(embs))))]]

\* m = embedding_vectors[:, :, i] - (mean[:, [i]].T / N)
Deviations(embs, mn, n, i) ==
    [b \in 1..Len(embs) |-> [c \in 1..d |->
        RSub(RInt(embs[b][c][i]), RDiv(mn[c][i], RInt(n)))]]

\* cov[:, :, i] += m.T @ m, for every location i
AddCov(cv, embs, mn, n) ==
    LET mtm == [i \in 1..HW |->
                   LET m == Deviations(embs, mn, n, i)
                   IN  [c1 \in 1..d |-> [c2 \in 1..d |->
                           RSum([b \in 1..Len(embs) |-> RMul(m[b][c1], m[b][c2])],
                                Len(embs))]]]
    IN  [c1 \in 1..d |-> [c2 \in 1..d |-> [i \in 1..HW |->
            RAdd(cv[c1][c2][i], mtm[i][c1][c2])]]]

\* mean = mean / N
DivideMean(mn, n) == [c \in 1..d |-> [i \in 1..HW |-> RDiv(mn[c][i], RInt(n))]]

Identity(c1, c2) == IF c1 = c2 THEN RInt(1) ELSE RInt(0)

\* cov[:, :, i] = (cov[:, :, i] / (N - 1)) + 0.01 * I
Regularize(cv, n) ==
    [c1 \in 1..d |-> [c2 \in 1..d |-> [i \in 1..HW |->
        RAdd(RDiv(cv[c1][c2][i], RInt(n - 1)), RMul(Rat(1, 100), Identity(c1, c2)))]]]

\* what a feature pickle given with --feat holds: some learned distribution
PickleGiven == <<ZeroMean, Regularize(ZeroCov, 2)>>

\* lines 188-193: the feature pickle is loaded and returned
LoadFeat ==
    /\ pc = "get_train_outputs"
    /\ feat
    /\ train_outputs' = PickleGiven
    /\ pc' = "trained"
    /\ UNCHANGED <<argVars, rng_pos, i_aug, i_img, N, nets, predicts,
                   train_imgs, mean, cov, pickled, exit_status, fed,
                   inferVars, mapVars, scoreVars>>

\* the listing without the test of line 202
CheckTrainImgsNoExit ==
    /\ pc = "get_train_outputs"
    /\ ~feat
    /\ train_imgs' = ListTrainImgs(train_dir)
    /\ pc' = "train_loop"
    /\ mean' = None
    /\ N' = 0
    /\ i_aug' = 0
    /\ i_img' = 0
    /\ UNCHANGED <<argVars, rng_pos, nets, predicts, cov, pickled,
                   exit_status, train_outputs, fed, inferVars, mapVars, scoreVars>>

\* lines 195-213: the training files are listed; none found is an exit(-1)
CheckTrainImgs ==
    /\ pc = "get_train_outputs"
    /\ ~feat
    /\ train_imgs' = ListTrainImgs(train_dir)
    /\ IF Len(train_imgs') = 0
       THEN /\ exit_status' = -1
            /\ pc' = "exit"
       ELSE /\ exit_status' = exit_status
            /\ pc' = "train_loop"
    /\ mean' = None
    /\ N' = 0
    /\ i_aug' = 0
    /\ i_img' = 0
    /\ UNCHANGED <<argVars, rng_pos, nets, predicts, cov, pickled,
                   train_outputs, fed, inferVars, mapVars, scoreVars>>

\* the loops of lines 214-215 cannot run: range() refuses a step of 0, and with
\* no lap or a negative step they end with mean = None, which line 282 divides
TrainCrash ==
    /\ pc = "train_loop"
    /\ (AugNum <= 0 \/ batch_size <= 0)
    /\ pc' = "error"
    /\ UNCHANGED <<argVars, rng_pos, i_aug, i_img, N, nets, predicts, trainVars,
                   inferVars, mapVars, scoreVars>>

\* lines 216-280: one batch of one augmentation lap
TrainBatch ==
    /\ pc = "train_loop"
    /\ AugNum > 0 /\ batch_size > 0
    /\ \E paths \in {BatchSlice(train_imgs, i_img, batch_size)} :
       \E imgs \in {PreprocessBatch([j \in 1..Len(paths) |-> train_dir[paths[j]]])} :
       \E embs \in {[b \in 1..Len(imgs) |-> Embed(imgs[b])]} :
       \E mn \in {AddMean(IF mean = None THEN ZeroMean ELSE mean, embs)} :
           /\ N' = N + Len(imgs)
           /\ rng_pos' = RngAfter(Len(imgs))
           /\ nets' = nets + 1
           /\ predicts' = predicts + 1
           /\ fed' = fed \o [b \in 1..Len(imgs) |->
                                [path |-> paths[b], lap |-> i_aug, emb |-> embs[b]]]
           /\ mean' = mn
           /\ cov' = AddCov(IF mean = None THEN ZeroCov ELSE cov, embs, mn, N + Len(imgs))
    /\ IF i_img + batch_size < Len(train_imgs)
       THEN /\ i_img' = i_img + batch_size
            /\ i_aug' = i_aug
            /\ pc' = pc
       ELSE /\ i_img' = 0
            /\ i_aug' = i_aug + 1
            /\ pc' = IF i_aug + 1 < AugNum THEN pc ELSE "divide"
    /\ UNCHANGED <<argVars, train_imgs, pickled, exit_status, train_outputs,
                   inferVars, mapVars, scoreVars>>

\* lines 281-297: the sums become the mean and the regularized covariance,
\* which are pickled and returned
TrainFinish ==
    /\ pc = "divide"
    /\ mean' = DivideMean(mean, N)
    /\ cov' = Regularize(cov, N)
    /\ train_outputs' = <<mean', cov'>>
    /\ pickled' = TRUE
    /\ pc' = "trained"
    /\ UNCHANGED <<argVars, rng_pos, i_aug, i_img, N, nets, predicts,
                   train_imgs, exit_status, fed, inferVars, mapVars, scoreVars>>


NoOutputs == <<>>

\* the state of what follows the score maps, before it has run
InitScoring ==
    /\ scores = <<>> /\ anormal_scores = <<>>
    /\ gt_mask = <<>>
    /\ precision = <<>> /\ recall = <<>> /\ thresholds = <<>>
    /\ threshold = None

\* the state before recognize_from_image has run anything
InitLocals ==
    /\ rng_pos = 0
    /\ train_imgs = <<>>
    /\ i_aug = 0 /\ i_img = 0 /\ N = 0
    /\ mean = None /\ cov = None
    /\ nets = 0 /\ predicts = 0
    /\ pickled = FALSE
    /\ exit_status = 0
    /\ train_outputs = NoOutputs
    /\ fed = <<>>
    /\ dist_list = <<>>
    /\ angle_list = <<>> /\ pad_h_list = <<>> /\ pad_w_list = <<>>
    /\ pad_h = -1 /\ pad_w = -1
    /\ test_imgs = <<>>
    /\ gt_imgs = <<>>
    /\ rev_i = 0
    /\ pad_width = <<>>

InitTrain ==
    /\ feat \in BOOLEAN
    /\ batch_size \in 0..MaxBatch
    /\ aug \in BOOLEAN
    /\ aug_num \in 0..MaxAug
    /\ idx \in IdxChoices
    /\ train_dir \in DirListings
    /\ img_hw \in Shapes
    /\ rng \in RngStreams
    \* what the run does not read is left at one value
    /\ ~aug => (aug_num = MaxAug /\ rng = <<0>> /\ img_hw = <<256, 256>>)
    /\ feat => (~aug /\ batch_size = 1 /\ train_dir = <<>> /\ idx = [c \in 1..d |-> c])
    /\ input = <<[ext |-> ".png", px |-> 0, gt |-> FALSE]>>
    /\ arg_threshold = None
    /\ sklearn_legacy = FALSE
    /\ pc = "get_train_outputs"
    /\ InitLocals
    /\ score_map = <<>>
    /\ InitScoring

NextTrain == LoadFeat \/ CheckTrainImgs \/ TrainCrash \/ TrainBatch \/ TrainFinish

SpecTrain == InitTrain /\ [][NextTrain]_vars

\* ------------------------------------------------------ recognize_from_image
\* lines 610-615 of main: no input file is a plain return
Main ==
    /\ pc = "main"
    /\ pc' = IF Len(input) = 0 THEN "return" ELSE "get_train_outputs"
    /\ UNCHANGED <<argVars, rng_pos, i_aug, i_img, N, nets, predicts, trainVars,
                   inferVars, mapVars, scoreVars>>

\* lines 386-404: the locals of the inference loop
StartInference ==
    /\ pc = "trained"
    /\ N' = 0 /\ i_aug' = 0 /\ i_img' = 0
    /\ dist_list' = <<>>
    /\ angle_list' = <<>> /\ pad_h_list' = <<>> /\ pad_w_list' = <<>>
    /\ test_imgs' = <<>> /\ gt_imgs' = <<>>
    /\ pc' = "infer_loop"
    /\ UNCHANGED <<argVars, rng_pos, nets, predicts, trainVars, pad_h, pad_w, mapVars,
                   scoreVars>>

\* the loops of lines 405-406 cannot run (a step of 0), or run no lap and leave
\* np.vstack of line 508 an empty list
InferCrash ==
    /\ pc = "infer_loop"
    /\ (AugNum <= 0 \/ batch_size <= 0)
    /\ pc' = "error"
    /\ UNCHANGED <<argVars, rng_pos, i_aug, i_img, N, nets, predicts, trainVars,
                   inferVars, mapVars, scoreVars>>

Remove(sq, j) == SubSeq(sq, 1, j - 1) \o SubSeq(sq, j + 1, Len(sq))

\* determinant of the submatrix of M on rows R and columns Cs (Laplace expansion)
RECURSIVE Det(_, _, _)
Det(M, R, Cs) ==
    IF Len(R) = 0 THEN RInt(1)
    ELSE RSum([j \in 1..Len(Cs) |->
                  RMul(RMul(RInt(IF j % 2 = 1 THEN 1 ELSE -1), M[R[1]][Cs[j]]),
                       Det(M, Tail(R), Remove(Cs, j)))], Len(Cs))

AllChannels == [c \in 1..d |-> c]

\* np.linalg.inv(M): the adjugate over the determinant
Inverse(M) ==
    LET dt == Det(M, AllChannels, AllChannels)
    IN  [c1 \in 1..d |-> [c2 \in 1..d |->
            RDiv(RMul(RInt(IF (c1 + c2) % 2 = 0 THEN 1 ELSE -1),
                      Det(M, Remove(AllChannels, c2), Remove(AllChannels, c1))),
                 dt)]]

Singular(M) == Det(M, AllChannels, AllChannels) = RInt(0)

\* scipy's mahalanobis(u, v, VI) squared: (u - v) VI (u - v)^T.  The distance
\* matrix is held by the squares of its entries (the square root is taken of a
\* value that is never negative for a positive definite VI)
Mahalanobis2(u, v, VI) ==
    LET delta == [c \in 1..d |-> RSub(u[c], v[c])]
    IN  RSum([c1 \in 1..d |->
                 RMul(RSum([c2 \in 1..d |-> RMul(delta[c2], VI[c2][c1])], d),
                      delta[c1])], d)

\* train_outputs[0][:, i]
MeanAt(out, loc) == [c \in 1..d |-> out[1][c][loc]]

\* train_outputs[1][:, :, i]
CovAt(out, loc) == [c1 \in 1..d |-> [c2 \in 1..d |-> out[2][c1][c2][loc]]]

\* sample[:, i]
SampleAt(emb, loc) == [c \in 1..d |-> RInt(emb[c][loc])]

\* conv_inv of line 503 and the distance of line 504 for one sample
DistAt(emb, out, loc, conv_inv) ==
    Mahalanobis2(SampleAt(emb, loc), MeanAt(out, loc), conv_inv)

\* one row of dist_tmp, the distances of one test picture
DistRow(emb, out) ==
    [loc \in 1..HW |-> DistAt(emb, out, loc, Inverse(CovAt(out, loc)))]

\* lines 500-505: dist_tmp, one inverse per location shared by the batch
DistTmp(embs, out) ==
    LET conv_inv == [loc \in 1..HW |-> Inverse(CovAt(out, loc))]
    IN  [b \in 1..Len(embs) |->
            [loc \in 1..HW |-> DistAt(embs[b], out, loc, conv_inv[loc])]]

\* lines 434-455: the ground truth appended for one input (None without a mask file)
GroundTruth(file) ==
    IF ~file.gt THEN [mask |-> FALSE, shape |-> <<0, 0>>, px |-> <<>>]
    ELSE [mask |-> TRUE,
          shape |-> IF aug THEN Resized(img_hw) ELSE <<IMAGE_SIZE, IMAGE_SIZE>>,
          px |-> [loc \in 1..HW |-> IF loc = 1 THEN 1 ELSE 0]]

\* lines 407-506: one batch of one lap of the inference loop
InferBatch ==
    /\ pc = "infer_loop"
    /\ AugNum > 0 /\ batch_size > 0
    /\ \E paths \in {BatchSlice([j \in 1..Len(input) |-> j], i_img, batch_size)} :
       \E imgs \in {PreprocessBatch([j \in 1..Len(paths) |-> input[paths[j]]])} :
       \E embs \in {[b \in 1..Len(imgs) |-> Embed(imgs[b])]} :
       LET B == Len(imgs)
       IN  /\ N' = N + B
           /\ rng_pos' = RngAfter(B)
           /\ nets' = nets + 1
           /\ predicts' = predicts + 1
           /\ test_imgs' = test_imgs \o
                  [b \in 1..B |-> [path |-> paths[b], lap |-> i_aug, emb |-> embs[b],
                                   view |-> imgs[b],
                                   word |-> IF aug THEN RngAt(rng_pos + 3 * (b - 1))
                                            ELSE 0]]
           /\ gt_imgs' = gt_imgs \o [b \in 1..B |-> GroundTruth(input[paths[b]])]
           /\ IF aug
              THEN /\ angle_list' = angle_list \o [b \in 1..B |-> imgs[b].angle]
                   /\ pad_h_list' = pad_h_list \o [b \in 1..B |-> imgs[b].pad_h]
                   /\ pad_w_list' = pad_w_list \o [b \in 1..B |-> imgs[b].pad_w]
                   /\ pad_h' = imgs[B].pad_h
                   /\ pad_w' = imgs[B].pad_w
              ELSE UNCHANGED <<angle_list, pad_h_list, pad_w_list, pad_h, pad_w>>
           /\ IF \E loc \in 1..HW : Singular(CovAt(train_outputs, loc))
              THEN /\ dist_list' = dist_list
                   /\ pc' = "error"
                   /\ UNCHANGED <<i_img, i_aug>>
              ELSE /\ dist_list' = Append(dist_list, DistTmp(embs, train_outputs))
                   /\ IF i_img + batch_size < Len(input)
                      THEN /\ i_img' = i_img + batch_size
                           /\ i_aug' = i_aug
                           /\ pc' = pc
                      ELSE /\ i_img' = 0
                           /\ i_aug' = i_aug + 1
                           /\ pc' = IF i_aug + 1 < AugNum THEN pc ELSE "stack"
    /\ UNCHANGED <<argVars, trainVars, mapVars, scoreVars>>

RECURSIVE VStack(_)
VStack(arrays) ==
    IF arrays = <<>> THEN <<>> ELSE Head(arrays) \o VStack(Tail(arrays))

\* lines 508-509: np.vstack, then the reshape to (N, H, W), which needs N rows
StackDist ==
    /\ pc = "stack"
    /\ dist_list' = VStack(dist_list)
    /\ pc' = IF Len(dist_list') # N THEN "error"
             ELSE IF aug THEN "reverse" ELSE "upsample"
    /\ UNCHANGED <<argVars, rng_pos, i_aug, i_img, N, nets, predicts, trainVars,
                   angle_list, pad_h_list, pad_w_list, pad_h, pad_w, test_imgs,
                   gt_imgs, mapVars, scoreVars>>

\* A score map is its shape and the values it carries, one per feature location
\* (resize, pad and warpAffine move and interpolate them; what they do to the
\* shape is modelled exactly).
\* lines 511-517: without augmentation every row is resized to 224 x 224
Upsample ==
    /\ pc = "upsample"
    /\ score_map' = [k \in 1..Len(dist_list) |->
                        [shape |-> <<IMAGE_SIZE, IMAGE_SIZE>>, px |-> dist_list[k]]]
    /\ pc' = "scored"
    /\ UNCHANGED <<argVars, rng_pos, i_aug, i_img, N, nets, predicts, trainVars,
                   inferVars, rev_i, pad_width, scoreVars>>

\* lines 528-531: (pad_top, pad_bottom, pad_left, pad_right) of iteration k
\* (1-based here); pad_h and pad_w are what the inference loop left in them
PadWidth(k) ==
    <<pad_h_list[k], IMAGE_RESIZE - IMAGE_SIZE - pad_h,
      pad_w_list[k], IMAGE_RESIZE - IMAGE_SIZE - pad_w>>

\* lines 521-542: one iteration of the reverse-augmentation loop: resize to
\* 224 x 224, np.pad (which refuses a negative width), warpAffine by -angle into
\* dsize = 256 x 256, store into score_map[i]
ReverseStep ==
    /\ pc = "reverse"
    /\ LET k == Len(score_map) + 1
           pw == PadWidth(k)
       IN  /\ rev_i' = k - 1
           /\ pad_width' = pw
           /\ IF \E s \in 1..4 : pw[s] < 0
              THEN /\ pc' = "error"
                   /\ score_map' = score_map
              ELSE /\ score_map' = Append(score_map,
                          [shape |-> <<IMAGE_RESIZE, IMAGE_RESIZE>>, px |-> dist_list[k]])
                   /\ pc' = IF k = N THEN "average" ELSE pc
    /\ UNCHANGED <<argVars, rng_pos, i_aug, i_img, N, nets, predicts, trainVars,
                   inferVars, scoreVars>>

\* the row an image-major layout would hold at [lap, j]
LapRowImageMajor(lap, j, per) == (j - 1) * aug_num + lap + 1

\* row of score_map that reshape(args.aug_num, -1, ...) puts at [lap, j]
\* (lap 0-based, j 1-based, per = rows per lap)
LapRow(lap, j, per) == lap * per + j

\* lines 543-544: the mean over the laps
Average ==
    /\ pc = "average"
    /\ LET per == Len(score_map) \div aug_num
       IN  score_map' =
               [j \in 1..per |->
                   [shape |-> <<IMAGE_RESIZE, IMAGE_RESIZE>>,
                    px |-> [loc \in 1..HW |->
                        RDiv(RSum([l \in 1..aug_num |->
                                      score_map[LapRow(l - 1, j, per)].px[loc]], aug_num),
                             RInt(aug_num))]]]
    /\ pc' = "scored"
    /\ UNCHANGED <<argVars, rng_pos, i_aug, i_img, N, nets, predicts, trainVars,
                   inferVars, rev_i, pad_width, scoreVars>>

MaxInputs == 2

InputFiles == {[ext |-> ".png", px |-> 0, gt |-> FALSE],
               [ext |-> ".png", px |-> 1, gt |-> TRUE]}

\* the training directories the inference runs are tried with
InferTrainDirs ==
    {<<>>,
     <<[ext |-> ".png", px |-> 0], [ext |-> ".jpg", px |-> 1]>>,
     <<[ext |-> ".png", px |-> 1], [ext |-> ".jpg", px |-> 1]>>,
     <<[ext |-> ".png", px |-> 1], [ext |-> ".txt", px |-> 0],
       [ext |-> ".bmp", px |-> 0]>>}

InitInfer ==
    /\ feat \in BOOLEAN
    /\ batch_size \in 0..MaxBatch
    /\ aug \in BOOLEAN
    /\ aug_num \in 0..MaxAug
    /\ idx \in IdxChoices
    /\ train_dir \in InferTrainDirs
    /\ img_hw \in Shapes
    /\ rng \in RngStreams
    /\ input \in UNION {[1..n -> InputFiles] : n \in 0..MaxInputs}
    \* what the run does not read is left at one value
    /\ ~aug => (aug_num = MaxAug /\ rng = <<0>> /\ img_hw = <<256, 256>>)
    /\ feat => (train_dir = <<>> /\ idx = [c \in 1..d |-> c])
    \* several augmentation laps are run on a given feature pickle
    /\ (aug /\ ~feat) => aug_num <= 1
    /\ Len(input) = 0 =>
          (~feat /\ ~aug /\ batch_size = 1 /\ train_dir = <<>> /\ idx = [c \in 1..d |-> c])
    /\ arg_threshold = None
    /\ sklearn_legacy = FALSE
    /\ pc = "main"
    /\ InitLocals
    /\ score_map = <<>>
    /\ InitScoring

NextInfer ==
    \/ Main
    \/ NextTrain
    \/ StartInference
    \/ InferCrash
    \/ InferBatch
    \/ StackDist
    \/ Upsample
    \/ ReverseStep
    \/ Average

SpecInfer == InitInfer /\ [][NextInfer]_vars

\* ------------------------------------------- normalization and threshold
MaxPixels == 4

ScoreValues == {0, 1, 2}

Range(sq) == {sq[k] : k \in 1..Len(sq)}

\* arr.max() / arr.min() of an array without NaN
MaxOf(S) == CHOOSE x \in S : \A y \in S : RLe(y, x)

MinOf(S) == CHOOSE x \in S : \A y \in S : RLe(x, y)

\* arr.flatten() of a stack of maps
Flatten(maps) == VStack([k \in 1..Len(maps) |-> maps[k].px])

\* each map scaled by its own extremes
NormalizedPerImage(sm) ==
    [k \in 1..Len(sm) |->
        [j \in 1..Len(sm[k].px) |->
            RDiv(RSub(sm[k].px[j], MinOf(Range(sm[k].px))),
                 RSub(MaxOf(Range(sm[k].px)), MinOf(Range(sm[k].px))))]]

\* lines 551-553: scores = (score_map - min_score) / (max_score - min_score)
Normalized(sm) ==
    LET max_score == MaxOf(Range(Flatten(sm)))
        min_score == MinOf(Range(Flatten(sm)))
    IN  [k \in 1..Len(sm) |->
            [j \in 1..Len(sm[k].px) |->
                RDiv(RSub(sm[k].px[j], min_score), RSub(max_score, min_score))]]

\* lines 550-558: normalization and the per-image anomaly score
Normalize ==
    /\ pc = "smoothed"
    /\ scores' = Normalized(score_map)
    /\ anormal_scores' = [k \in 1..Len(score_map) |-> MaxOf(Range(score_map[k].px))]
    /\ pc' = "normalized"
    /\ UNCHANGED <<argVars, rng_pos, i_aug, i_img, N, nets, predicts, trainVars,
                   inferVars, mapVars, sklearn_legacy, gt_mask, precision, recall,
                   thresholds, threshold>>

\* lines 562-565: the ground truth of the first lap
GtMask ==
    IF ~aug THEN gt_imgs ELSE SubSeq(gt_imgs, 1, Len(gt_imgs) \div aug_num)

RECURSIVE SortAsc(_)
SortAsc(S) ==
    IF S = {} THEN <<>> ELSE <<MinOf(S)>> \o SortAsc(S \ {MinOf(S)})

Tps(y, sc, t) == Cardinality({k \in 1..Len(sc) : y[k] = 1 /\ RLe(t, sc[k])})

Fps(y, sc, t) == Cardinality({k \in 1..Len(sc) : y[k] = 0 /\ RLe(t, sc[k])})

NumPos(y) == Cardinality({k \in 1..Len(y) : y[k] = 1})

\* sklearn.metrics.precision_recall_curve(y, sc) as line 566 calls it: one
\* candidate per distinct score, ascending; precision and recall of "score >=
\* candidate", then a final (1, 0).  Releases before 1.1 stop at the first
\* candidate that attains full recall and divide by the number of positives
\* even when it is 0; later ones keep all candidates and give recall 1 then.
PrecisionRecallCurve(y, sc) ==
    LET all == Range(sc)
        kept == IF sklearn_legacy
                THEN LET full == MaxOf({t \in all : Tps(y, sc, t) = NumPos(y)})
                     IN  {t \in all : RLe(full, t)}
                ELSE all
        thr == SortAsc(kept)
        tps == [k \in 1..Len(thr) |-> Tps(y, sc, thr[k])]
        fps == [k \in 1..Len(thr) |-> Fps(y, sc, thr[k])]
        npos == NumPos(y)
    IN  [precision |->
            [k \in 1..Len(thr) |-> Rat(tps[k], tps[k] + fps[k])] \o <<RInt(1)>>,
         recall |->
            [k \in 1..Len(thr) |->
                IF ~sklearn_legacy /\ npos = 0 THEN RInt(1)
                ELSE RDiv(RInt(tps[k]), RInt(npos))]
            \o <<RInt(0)>>,
         thresholds |-> thr]

\* lines 567-569: f1 = a / b where b != 0, else 0
F1Scores(prec, rec) ==
    [k \in 1..Len(prec) |->
        LET a == RMul(RInt(2), RMul(prec[k], rec[k]))
            b == RAdd(prec[k], rec[k])
        IN  IF b # RInt(0) THEN RDiv(a, b) ELSE RInt(0)]

\* np.argmax (1-based here): the first NaN if there is one, else the first maximum
ArgMax(f) ==
    IF \E k \in 1..Len(f) : f[k] = NaN
    THEN CHOOSE k \in 1..Len(f) : f[k] = NaN /\ \A j \in 1..(k - 1) : f[j] # NaN
    ELSE CHOOSE k \in 1..Len(f) :
             /\ \A j \in 1..Len(f) : RLe(f[j], f[k])
             /\ \A j \in 1..(k - 1) : f[j] # f[k]

\* an index taken from the precision alone
BestIndexByPrecision(prec, rec) == ArgMax(prec)

\* line 570: np.argmax(f1)
BestIndex(prec, rec) == ArgMax(F1Scores(prec, rec))

\* lines 560-566: the masks of the first lap and the precision-recall curve;
\* sklearn refuses NaN scores and labels that are not all 0 / 1 arrays
PrecisionRecall ==
    /\ pc = "normalized"
    /\ arg_threshold = None
    /\ gt_mask' = GtMask
    /\ IF \/ \E k \in 1..Len(gt_mask') : ~gt_mask'[k].mask
          \/ NaN \in Range(VStack(scores))
          \/ Len(Flatten(gt_mask')) # Len(VStack(scores))
       THEN /\ pc' = "error"
            /\ UNCHANGED <<precision, recall, thresholds>>
       ELSE /\ \E prc \in {PrecisionRecallCurve(Flatten(gt_mask'), VStack(scores))} :
                 /\ precision' = prc.precision
                 /\ recall' = prc.recall
                 /\ thresholds' = prc.thresholds
            /\ pc' = "curve"
    /\ UNCHANGED <<argVars, rng_pos, i_aug, i_img, N, nets, predicts, trainVars,
                   inferVars, mapVars, sklearn_legacy, scores, anormal_scores,
                   threshold>>

\* lines 567-571: threshold = thresholds[np.argmax(f1)], an IndexError when the
\* index is past the end of thresholds
SearchThreshold ==
    /\ pc = "curve"
    /\ \E best \in {BestIndex(precision, recall)} :
          IF best <= Len(thresholds)
          THEN /\ threshold' = thresholds[best]
               /\ pc' = "plot"
          ELSE /\ threshold' = threshold
               /\ pc' = "error"
    /\ UNCHANGED <<argVars, rng_pos, i_aug, i_img, N, nets, predicts, trainVars,
                   inferVars, mapVars, sklearn_legacy, scores, anormal_scores,
                   gt_mask, precision, recall, thresholds>>

\* lines 572-573: the threshold given with --threshold
UseThreshold ==
    /\ pc = "normalized"
    /\ arg_threshold # None
    /\ threshold' = arg_threshold
    /\ pc' = "plot"
    /\ UNCHANGED <<argVars, rng_pos, i_aug, i_img, N, nets, predicts, trainVars,
                   inferVars, mapVars, sklearn_legacy, scores, anormal_scores,
                   gt_mask, precision, recall, thresholds>>

\* smoothed score maps and masks of n images of p pixels each
ScoreMaps(n, p) ==
    [1..n -> {[shape |-> <<p, 1>>, px |-> q] :
                 q \in [1..p -> {RInt(v) : v \in ScoreValues}]}]

Masks(n, p) ==
    [1..n -> {[mask |-> TRUE, shape |-> <<p, 1>>, px |-> q] : q \in [1..p -> {0, 1}]}]

RECURSIVE Repeat(_, _)
Repeat(sq, times) == IF times = 0 THEN <<>> ELSE sq \o Repeat(sq, times - 1)

\* the state after the smoothing loop of lines 547-548
InitScore ==
    /\ feat = TRUE /\ batch_size = 1 /\ idx = [c \in 1..d |-> c]
    /\ train_dir = <<>> /\ input = <<>> /\ img_hw = <<256, 256>> /\ rng = <<0>>
    /\ aug \in BOOLEAN
    /\ aug_num = MaxAug
    /\ arg_threshold \in {None, Rat(1, 2)}
    /\ sklearn_legacy \in BOOLEAN
    /\ \E n \in 1..MaxPixels : \E p \in 1..MaxPixels :
          /\ n * p <= MaxPixels
          /\ score_map \in ScoreMaps(n, p)
          /\ \E base \in Masks(n, p) : gt_imgs = Repeat(base, AugNum)
    \* what the run does not read is left at one value
    /\ arg_threshold # None =>
          (~sklearn_legacy /\ ~aug /\ \A k \in 1..Len(gt_imgs) : 1 \notin Range(gt_imgs[k].px))
    /\ aug => ~sklearn_legacy
    /\ pc = "smoothed"
    /\ rng_pos = 0
    /\ train_imgs = <<>>
    /\ i_aug = 0 /\ i_img = 0 /\ N = 0
    /\ mean = None /\ cov = None
    /\ nets = 0 /\ predicts = 0
    /\ pickled = FALSE
    /\ exit_status = 0
    /\ train_outputs = PickleGiven
    /\ fed = <<>>
    /\ dist_list = <<>>
    /\ angle_list = <<>> /\ pad_h_list = <<>> /\ pad_w_list = <<>>
    /\ pad_h = -1 /\ pad_w = -1
    /\ test_imgs = <<>>
    /\ rev_i = 0
    /\ pad_width = <<>>
    /\ InitScoring

NextScore == Normalize \/ PrecisionRecall \/ SearchThreshold \/ UseThreshold

SpecScore == InitScore /\ [][NextScore]_vars

\* ------------------------------------------------- training: the claims
\* the embeddings the network produced in training, at location i, channel c
FedAt(k, c, i) == RInt(fed[k].emb[c][i])

\* mean of all embeddings fed, at location i
FedMean(c, i) ==
    RDiv(RSum([k \in 1..Len(fed) |-> FedAt(k, c, i)], Len(fed)), RInt(Len(fed)))

\* unbiased sample covariance of all embeddings fed, at location i
SampleCov(c1, c2, i) ==
    RDiv(RSum([k \in 1..Len(fed) |->
                  RMul(RSub(FedAt(k, c1, i), FedMean(c1, i)),
                       RSub(FedAt(k, c2, i), FedMean(c2, i)))], Len(fed)),
         RInt(Len(fed) - 1))

\* C1: when the loops of get_train_outputs end, the accumulated covariance
\* divided by N - 1 (before 0.01 * I is added) is, at every location, the
\* unbiased sample covariance of all N training embeddings, whatever the
\* batch_size
C1_CovIsSampleCovariance ==
    (pc = "divide" /\ N >= 2) =>
        \A i \in 1..HW : \A c1, c2 \in 1..d :
            RDiv(cov[c1][c2][i], RInt(N - 1)) = SampleCov(c1, c2, i)

\* C2: training from images feeds every training image exactly once per lap,
\* so N = aug_num * len(train_imgs) and the returned mean is the sum of all N
\* embeddings divided by N, at every location
C2_EveryImageOncePerLap ==
    (pc \in {"divide", "trained"} /\ ~feat) =>
        /\ N = AugNum * Len(train_imgs)
        /\ Len(fed) = N
        /\ \A lap \in 0..(AugNum - 1) : \A p \in 1..Len(train_imgs) :
              Cardinality({k \in 1..Len(fed) :
                  fed[k].path = train_imgs[p] /\ fed[k].lap = lap}) = 1
        /\ pc = "trained" =>
              \A c \in 1..d : \A i \in 1..HW : train_outputs[1][c][i] = FedMean(c, i)

\* C2 witness: two laps over three images in batches of two (a short last batch)
C2_Witness ==
    /\ pc = "trained" /\ ~feat /\ aug /\ aug_num = 2
    /\ Len(train_imgs) = 3 /\ batch_size = 2 /\ N = 6

\* C9: without a feature pickle and without any .png/.jpg/.bmp training file,
\* get_train_outputs exits with status -1 before a network is created, an
\* inference is run or a pickle is written
C9_NoTrainImagesExits ==
    (~feat /\ ListTrainImgs(train_dir) = <<>> /\ pc # "get_train_outputs") =>
        /\ pc = "exit"
        /\ exit_status = -1
        /\ nets = 0 /\ predicts = 0
        /\ ~pickled /\ train_outputs = NoOutputs

\* C9 witness: the exit taken on a directory that holds only other files
C9_Witness == pc = "exit" /\ Len(train_dir) > 0 /\ exit_status = -1

\* ------------------------------------------------ inference: the claims
\* C3: in augmentation mode every reverse-crop iteration i pads the 224 x 224
\* map with the offsets recorded for that same image i on all four sides
\* (top = pad_h_i, bottom = 256 - 224 - pad_h_i, left = pad_w_i,
\* right = 256 - 224 - pad_w_i), no width negative, giving exactly 256 x 256
C3_ReverseCropUsesOwnOffsets ==
    pad_width # <<>> =>
        LET k == rev_i + 1
        IN  /\ pad_width = <<pad_h_list[k], IMAGE_RESIZE - IMAGE_SIZE - pad_h_list[k],
                             pad_w_list[k], IMAGE_RESIZE - IMAGE_SIZE - pad_w_list[k]>>
            /\ \A s \in 1..4 : pad_width[s] >= 0
            /\ IMAGE_SIZE + pad_width[1] + pad_width[2] = IMAGE_RESIZE
            /\ IMAGE_SIZE + pad_width[3] + pad_width[4] = IMAGE_RESIZE

\* the regularized sample covariance of the training embeddings at a location
RegularizedSampleCov(loc) ==
    [c1 \in 1..d |-> [c2 \in 1..d |->
        RAdd(SampleCov(c1, c2, loc), RMul(Rat(1, 100), Identity(c1, c2)))]]

\* C4: once stacked, the distance list has N = aug_num * len(input) rows in
\* processing order (lap-major, then input order), and row b holds at location
\* i the Mahalanobis distance of picture b's embedding at i to the trained mean
\* of i under the inverse of (sample covariance + 0.01 * I) of that location
C4_DistIsMahalanobis ==
    (pc \in {"upsample", "reverse"} /\ ~feat /\ Len(fed) >= 2) =>
        /\ Len(dist_list) = N
        /\ N = AugNum * Len(input)
        /\ \A k \in 1..Len(dist_list) :
              /\ test_imgs[k].path = ((k - 1) % Len(input)) + 1
              /\ test_imgs[k].lap = (k - 1) \div Len(input)
              /\ Len(dist_list[k]) = HW
              /\ \A loc \in 1..HW :
                    dist_list[k][loc] =
                        Mahalanobis2(SampleAt(test_imgs[k].emb, loc),
                                     [c \in 1..d |-> FedMean(c, loc)],
                                     Inverse(RegularizedSampleCov(loc)))

\* the processed test picture of input j in lap l
TestedAt(j, l) ==
    CHOOSE k \in 1..Len(test_imgs) : test_imgs[k].path = j /\ test_imgs[k].lap = l

\* C7: in augmentation mode there are as many final score maps as inputs, and
\* final map j is the arithmetic mean over the aug_num laps of the maps of
\* input j, each lap of j counted exactly once
C7_FinalMapIsMeanOverLaps ==
    (pc = "scored" /\ aug) =>
        /\ Len(score_map) = Len(input)
        /\ \A j \in 1..Len(input) : \A l \in 0..(aug_num - 1) :
              Cardinality({k \in 1..Len(test_imgs) :
                  test_imgs[k].path = j /\ test_imgs[k].lap = l}) = 1
        /\ \A j \in 1..Len(input) : \A loc \in 1..HW :
              score_map[j].px[loc] =
                  RDiv(RSum([l \in 1..aug_num |->
                                DistRow(test_imgs[TestedAt(j, l - 1)].emb,
                                        train_outputs)[loc]], aug_num),
                       RInt(aug_num))

\* C7 witness: two laps over two inputs whose final maps differ
C7_Witness ==
    /\ pc = "scored" /\ aug /\ aug_num = 2 /\ Len(input) = 2
    /\ score_map[1].px # score_map[2].px
    /\ test_imgs[1].emb # test_imgs[3].emb

\* C8: preprocess_aug rotates by an integer angle drawn from the whole of
\* angle_range (-10..10), and the angle it returns is the angle it applied
C8_AngleDrawnFromRange ==
    \A k \in 1..Len(angle_list) :
        /\ angle_list[k] = test_imgs[k].view.angle
        /\ angle_list[k] = randint(angle_range[1], angle_range[2] + 1, test_imgs[k].word)

\* --------------------------------------------------- scoring: the claims
AllPixels(maps) == {<<k, j>> : k \in 1..Len(maps), j \in 1..Len(maps[1].px)}

\* the normalized scores lie in [0, 1], the smallest smoothed score of the whole
\* set maps to 0 and the largest to 1, and the order of any two is kept
UnitRangeGlobal ==
    LET P == AllPixels(score_map)
        S(q) == score_map[q[1]].px[q[2]]
        T(q) == scores[q[1]][q[2]]
    IN  /\ \A q \in P : RLe(RInt(0), T(q)) /\ RLe(T(q), RInt(1))
        /\ \A q \in P : (\A r \in P : RLe(S(q), S(r))) => T(q) = RInt(0)
        /\ \A q \in P : (\A r \in P : RLe(S(r), S(q))) => T(q) = RInt(1)
        /\ \A q, r \in P : RLt(S(q), S(r)) => RLt(T(q), T(r))

\* C5 (as stated): after the normalization, for every set of smoothed maps
C5_NormalizedIntoUnitRange == scores # <<>> => UnitRangeGlobal

\* C5 (amended): the same, when the smoothed scores are not all equal
C5_NormalizedWhenNotConstant ==
    (scores # <<>> /\ Cardinality(Range(Flatten(score_map))) > 1) => UnitRangeGlobal

\* C5 witness: two images, the global minimum only in the first and the global
\* maximum only in the second, the first image's own maximum below it
C5_Witness ==
    /\ scores # <<>> /\ Len(score_map) = 2 /\ Len(score_map[1].px) = 2
    /\ score_map[1].px = <<RInt(0), RInt(1)>>
    /\ score_map[2].px = <<RInt(1), RInt(2)>>
    /\ scores[1] = <<RInt(0), Rat(1, 2)>>

\* F1 of predicting "score >= t", from the masks and scores themselves
F1At(t) ==
    LET y == Flatten(gt_mask)
        sc == VStack(scores)
        tp == Cardinality({k \in 1..Len(sc) : y[k] = 1 /\ RLe(t, sc[k])})
        fp == Cardinality({k \in 1..Len(sc) : y[k] = 0 /\ RLe(t, sc[k])})
        fn == Cardinality({k \in 1..Len(sc) : y[k] = 1 /\ ~RLe(t, sc[k])})
    IN  IF tp = 0 THEN RInt(0) ELSE Rat(2 * tp, 2 * tp + fp + fn)

\* C6: without --threshold the threshold used is a candidate of the curve with
\* the largest F1 of all candidates and argmax(f1) always indexes thresholds
\* (one shorter than precision / recall); with --threshold that value is used
\* unchanged and no search over the masks is made
C6_ThresholdIsBestF1 ==
    /\ (arg_threshold = None /\ pc = "plot") =>
          /\ Len(precision) = Len(thresholds) + 1
          /\ Len(recall) = Len(thresholds) + 1
          /\ threshold \in Range(thresholds)
          /\ threshold \in Range(VStack(scores))
          /\ \A t \in Range(thresholds) : RLe(F1At(t), F1At(threshold))
    /\ (arg_threshold = None /\ pc = "error") => NaN \in Range(VStack(scores))
    /\ (arg_threshold # None /\ pc = "plot") =>
          /\ threshold = arg_threshold
          /\ gt_mask = <<>> /\ precision = <<>> /\ recall = <<>> /\ thresholds = <<>>

\* C6 witness: a search whose best candidate is neither the lowest nor the highest
C6_Witness ==
    /\ pc = "plot" /\ arg_threshold = None
    /\ Len(thresholds) = 3
    /\ threshold = thresholds[2]
    /\ RLt(F1At(thresholds[1]), F1At(threshold))
    /\ RLt(F1At(thresholds[3]), F1At(threshold))

====
